---- MODULE Spec2Model ----
(***************************************************************************)
(* Model of rf_watch_rtlsdr.py: the RTL-SDR band watcher.                  *)
(*                                                                         *)
(* Three specifications share the variables below:                         *)
(*   Spec        the watch loop of main(): scan_band, detect_peaks, speak, *)
(*               the SIGINT handler and the wall clock;                    *)
(*   SpecListen  listen_to_frequency with the SIGINT handler and the       *)
(*               processes of the audio pipelines;                         *)
(*   SpecParse   the pure part of scan_band and detect_peaks, and the test *)
(*               main() makes of the hits, applied to bounded rtl_power    *)
(*               outputs.                                                  *)
(*                                                                         *)
(* Units.  Power is counted in quarter dB: the inputs are multiples of     *)
(* half a dB, so that the mean of the two middle values taken by           *)
(* statistics.median is exact.  Time is counted in ticks of half a second. *)
(* Frequencies are in Hz.                                                  *)
(***************************************************************************)
EXTENDS Integers, Sequences, FiniteSets, TLC

\* ------------------------------------------------------------ bounds ----
MaxBins == 4            \* most power fields on one rtl_power line
MaxElapsed == 11        \* ticks the clock may advance after program start
MaxAttempts == 3        \* most speak() calls in one run
MaxPipelines == 2       \* most listen_to_frequency calls in one run

\* --------------------------------------------------------- constants ----
THRESHOLD_ABOVE_MEDIAN_DB == 14      \* 3.5 dB
TTS_COOLDOWN_SEC == 10               \* 5 s
ENABLE_TTS_ALERTS == TRUE
NumBands == 6                        \* len(BANDS)
SleepTicks == 1                      \* time.sleep(0.5)
PollTicks == 1                       \* one polling interval: at most 0.5 s
MinFields == 8                       \* len(parts) >= 8
StartHz == 144000000                 \* f_start of the "2m Ham" band
BIN_WIDTH_HZ == 25000
LISTEN_TIME_SEC == 10                \* 5 s

\* ------------------------------------------- rtl_power output (text) ----
\* A field of a comma-separated line: a text float() accepts, a text it
\* rejects, or the empty text.
Num(n) == [t |-> "num", v |-> n]
Bad == [t |-> "bad", v |-> 0]
Empty == [t |-> "empty", v |-> 0]

\* float(s) succeeds
IsFloat(f) == f.t = "num"

\* A line (already stripped): its fields as split(",") returns them, and
\* whether its text starts with "#".
Line(c, fs) == [comment |-> c, fields |-> fs]

\* `not line`: the stripped line is the empty text
IsBlank(l) == ~l.comment /\ l.fields = <<Empty>>

\* "," in line
HasComma(l) == Len(l.fields) > 1

\* the filter without its test for comment lines
IsCandidateKeepComments(l) ==
    /\ ~IsBlank(l)
    /\ HasComma(l)
    /\ Len(l.fields) >= MinFields

\* the filter of the loop over out.splitlines()
IsCandidate(l) ==
    /\ ~(IsBlank(l) \/ l.comment)
    /\ HasComma(l)
    /\ Len(l.fields) >= MinFields

\* data_parts after the loop
DataParts(out) == SelectSeq(out, IsCandidate)

EmptySweep == [freqs |-> <<>>, powers |-> <<>>]

\* index used for the frequency of the field at 0-based position i of
\* power_values_str, kept being the number of fields retained so far
EnumIndexRetained(i, kept) == kept

\* enumerate(power_values_str): i counts every field, dropped ones included
EnumIndex(i, kept) == i

\* the loop over enumerate(power_values_str), from 0-based position i
RECURSIVE PowerLoop(_, _, _, _, _, _)
PowerLoop(pvs, i, freq_start, bin_hz, fs, ps) ==
    IF i >= Len(pvs) THEN [freqs |-> fs, powers |-> ps]
    ELSE LET p_str == pvs[i + 1] IN
         IF ~IsFloat(p_str)
         THEN PowerLoop(pvs, i + 1, freq_start, bin_hz, fs, ps)
         ELSE PowerLoop(pvs, i + 1, freq_start, bin_hz,
                        Append(fs, freq_start + EnumIndex(i, Len(ps)) * bin_hz),
                        Append(ps, p_str.v))

\* scan_band taking the first candidate line instead of the last
ParseOutputFirst(out) ==
    LET data_parts == DataParts(out) IN
    IF data_parts = <<>> THEN EmptySweep
    ELSE LET parts == data_parts[1].fields IN
         IF ~(IsFloat(parts[3]) /\ IsFloat(parts[5])) THEN EmptySweep
         ELSE PowerLoop(SubSeq(parts, 7, Len(parts)), 0,
                        parts[3].v, parts[5].v, <<>>, <<>>)

\* scan_band after check_output returned `out`
ParseOutput(out) ==
    LET data_parts == DataParts(out) IN
    IF data_parts = <<>> THEN EmptySweep
    ELSE LET parts == data_parts[Len(data_parts)].fields IN
         IF ~(IsFloat(parts[3]) /\ IsFloat(parts[5])) THEN EmptySweep
         ELSE PowerLoop(SubSeq(parts, 7, Len(parts)), 0,
                        parts[3].v, parts[5].v, <<>>, <<>>)

\* ------------------------------------------------------ detect_peaks ----
\* sorted(data), ascending
RECURSIVE InsertAsc(_, _)
InsertAsc(s, x) ==
    IF s = <<>> THEN <<x>>
    ELSE IF x < Head(s) THEN <<x>> \o s
    ELSE <<Head(s)>> \o InsertAsc(Tail(s), x)

RECURSIVE Sorted(_)
Sorted(s) == IF s = <<>> THEN <<>> ELSE InsertAsc(Sorted(SubSeq(s, 1, Len(s) - 1)), s[Len(s)])

\* statistics.median of a non-empty list
Median(data) ==
    LET d == Sorted(data)
        n == Len(d)
    IN IF n % 2 = 1 THEN d[(n \div 2) + 1]
       ELSE (d[n \div 2] + d[(n \div 2) + 1]) \div 2

\* the test `p >= cutoff` written with > instead
IsHitStrict(p, cutoff) == p > cutoff

\* p >= cutoff
IsHit(p, cutoff) == p >= cutoff

\* the loop over zip(freqs, powers)
RECURSIVE HitLoop(_, _, _, _)
HitLoop(fs, ps, k, cutoff) ==
    IF k > Len(fs) \/ k > Len(ps) THEN <<>>
    ELSE (IF IsHit(ps[k], cutoff) THEN << <<fs[k], ps[k]>> >> ELSE <<>>)
         \o HitLoop(fs, ps, k + 1, cutoff)

detect_peaks(fs, ps) ==
    IF ps = <<>> THEN <<>>
    ELSE HitLoop(fs, ps, 1, Median(ps) + THRESHOLD_ABOVE_MEDIAN_DB)

\* hits.sort(key=lambda x: x[1], reverse=True): stable, strongest first
RECURSIVE InsertDesc(_, _)
InsertDesc(s, x) ==
    IF s = <<>> THEN <<x>>
    ELSE IF x[2] > Head(s)[2] THEN <<x>> \o s
    ELSE <<Head(s)>> \o InsertDesc(Tail(s), x)

\* the hits left in sweep order, hits[0] taken without the sort
SortHitsUnsorted(h) == h

RECURSIVE SortHits(_)
SortHits(h) == IF h = <<>> THEN <<>> ELSE InsertDesc(SortHits(SubSeq(h, 1, Len(h) - 1)), h[Len(h)])

\* ------------------------------------------------------------- state ----
VARIABLES
    pc,                 \* where main() is
    band,               \* 1-based index of the for loop over BANDS
    stop_requested,
    now,                \* time.time(), in ticks
    last_tts_time,
    sweepProc,          \* the rtl_power child: "none" or "running"
    wake,               \* when time.sleep(0.5) of main returns
    rc,                 \* exit status of the last sweep: "none", "zero", "nonzero"
    raw,                \* `out`, the text the last sweep printed
    freqs, powers,      \* what scan_band returned
    hits,               \* what detect_peaks returned
    log,                \* one entry per speak() call: its time and what became of it
    speech,             \* number of espeak processes started
    late,               \* ticks gone by since SIGINT with main() still running (saturates)
    sigpc,              \* where main() was when SIGINT was first handled ("none" before)
    lpc,                \* where listen_to_frequency is
    current_audio_proc, \* 0 for None, else the index of the Popen object in procs
    procs,              \* the audio pipelines spawned so far
    t0,                 \* start time of the current listen
    ppc                 \* position of the parse-and-detect run of SpecParse

vars == <<pc, band, stop_requested, now, last_tts_time, sweepProc, wake, rc, raw,
          freqs, powers, hits, log, speech, late, sigpc, lpc, current_audio_proc, procs,
          t0, ppc>>

mainVars == <<pc, band, sweepProc, wake, rc, raw, freqs, powers, hits>>
listenVars == <<lpc, current_audio_proc, procs, t0>>

\* time.time() when the program starts: any reading of a set clock is far
\* more than the cooldown after the epoch, where last_tts_time starts
StartClock == TTS_COOLDOWN_SEC

\* ------------------------------------------------ inputs of the loop ----
Txt == Bad      \* a field holding text that is no number (date, time)

\* fields 0..5 of a data line: date, time, start, end, bin width, samples
Header(start, bin) == <<Txt, Txt, start, Num(StartHz + 4000000), bin, Num(160)>>

DataLine(start, bin, pw) == Line(FALSE, Header(start, bin) \o pw)

BlankLine == Line(FALSE, <<Empty>>)
CommentLine == Line(TRUE, Header(Num(StartHz), Num(BIN_WIDTH_HZ)) \o <<Num(-200), Num(-280)>>)
StatusLine == Line(FALSE, <<Txt>>)            \* text without a comma
CancelLine == Line(FALSE, <<Txt, Txt>>)       \* "User cancel, exiting..."
ShortLine == Line(FALSE, Header(Num(StartHz), Num(BIN_WIDTH_HZ)) \o <<Num(-200)>>)

\* what a sweep of the watch loop may print
QuietOut == <<DataLine(Num(StartHz), Num(BIN_WIDTH_HZ),
                       <<Num(-280), Num(-284), Num(-280), Num(-284)>>)>>
PeakOut == <<StatusLine,
             DataLine(Num(StartHz), Num(BIN_WIDTH_HZ),
                      <<Num(-280), Num(-284), Num(-200), Num(-280)>>)>>
\* three hits, the two strongest of equal power, a weaker one before them
TieOut == <<DataLine(Num(StartHz), Num(BIN_WIDTH_HZ),
                     <<Num(-280), Num(-208), Num(-200), Num(-284),
                       Num(-200), Num(-280), Num(-284)>>)>>
GappyOut == <<DataLine(Num(StartHz), Num(BIN_WIDTH_HZ),
                       <<Num(-280), Bad, Num(-200), Num(-280)>>)>>
BadHeaderOut == <<DataLine(Bad, Num(BIN_WIDTH_HZ),
                           <<Num(-280), Num(-284), Num(-200), Num(-280)>>)>>
NoCsvOut == <<StatusLine, BlankLine>>
CancelOut == <<CancelLine>>

SweepOutputs ==
    {QuietOut, PeakOut, TieOut, GappyOut, BadHeaderOut, NoCsvOut, CancelOut, <<>>}

\* ------------------------------------------------------------- speak ----
\* the cooldown test taken one tick short
InCooldownShort(t, last) == t - last < TTS_COOLDOWN_SEC - 1

\* the cooldown test written with <=
InCooldownInclusive(t, last) == t - last <= TTS_COOLDOWN_SEC

\* now - last_tts_time < TTS_COOLDOWN_SEC
InCooldown(t, last) == t - last < TTS_COOLDOWN_SEC

\* last_tts_time stamped before the cooldown test instead of after it
NextStampEarly(t, last) == IF ~ENABLE_TTS_ALERTS THEN last ELSE t

\* last_tts_time after a call of speak() at time t
NextStamp(t, last) ==
    IF ~ENABLE_TTS_ALERTS \/ InCooldown(t, last) THEN last ELSE t

\* what became of a call of speak() at time t; `installed` tells whether
\* Popen found espeak
Outcome(t, last, installed) ==
    IF ~ENABLE_TTS_ALERTS THEN "disabled"
    ELSE IF InCooldown(t, last) THEN "suppressed"
    ELSE IF installed THEN "spoken"
    ELSE "nospeech"

\* whether a call of speak() at time t prints its "[TTS]" line: the print
\* stands after both early returns
TtsLine(t, last) == ENABLE_TTS_ALERTS /\ ~InCooldown(t, last)

\* speak(message); msg is the frequency the message names (0: the startup
\* announcement)
Speak(msg) ==
    \E installed \in BOOLEAN :
        /\ last_tts_time' = NextStamp(now, last_tts_time)
        /\ log' = Append(log, [t |-> now, msg |-> msg,
                               out |-> Outcome(now, last_tts_time, installed),
                               line |-> TtsLine(now, last_tts_time)])
        /\ speech' = IF Outcome(now, last_tts_time, installed) = "spoken"
                     THEN speech + 1
                     ELSE speech

\* ---------------------------------------------------- SIGINT handler ----
\* current_audio_proc and current_audio_proc.poll() is None
AudioAlive == current_audio_proc # 0 /\ procs[current_audio_proc].shell = "running"

\* handle_sigint, run between two steps of the main thread: terminate()
\* signals the shell alone; wait(timeout=2) reaps it, or kill() ends it
HandleSigint ==
    /\ pc \notin {"stopped", "crashed"}
    /\ ~stop_requested \/ AudioAlive
    /\ stop_requested' = TRUE
    /\ sigpc' = IF stop_requested THEN sigpc ELSE pc
    /\ procs' = IF AudioAlive
                THEN [procs EXCEPT ![current_audio_proc].shell = "exited"]
                ELSE procs
    /\ UNCHANGED <<mainVars, now, last_tts_time, log, speech, late, lpc,
                   current_audio_proc, t0, ppc>>

\* -------------------------------------------------------- watch loop ----
\* main() up to the while loop: the startup announcement
Startup ==
    /\ pc = "start"
    /\ Speak(0)
    /\ pc' = "while"
    /\ UNCHANGED <<band, stop_requested, now, sweepProc, wake, rc, raw, freqs,
                   powers, hits, late, sigpc, listenVars, ppc>>

\* while not stop_requested
WhileCheck ==
    /\ pc = "while"
    /\ IF stop_requested
       THEN pc' = "stopped" /\ band' = band
       ELSE pc' = "for" /\ band' = 1
    /\ UNCHANGED <<stop_requested, now, last_tts_time, sweepProc, wake, rc, raw,
                   freqs, powers, hits, log, speech, late, sigpc, listenVars, ppc>>

\* for ... in BANDS: if stop_requested: break; after the loop, time.sleep(0.5)
ForNext ==
    /\ pc = "for"
    /\ IF band > NumBands \/ stop_requested
       THEN pc' = "sleep" /\ wake' = now + SleepTicks
       ELSE pc' = "spawn" /\ wake' = wake
    /\ hits' = <<>>            \* the list of the last iteration is dead
    /\ UNCHANGED <<band, stop_requested, now, last_tts_time, sweepProc, rc, raw,
                   freqs, powers, log, speech, late, sigpc, listenVars, ppc>>

\* scan_band up to check_output starting rtl_power; a missing tool makes
\* Popen raise FileNotFoundError, which nothing catches
SpawnSweep ==
    /\ pc = "spawn"
    /\ \E installed \in BOOLEAN :
          IF installed
          THEN pc' = "scan" /\ sweepProc' = "running"
          ELSE pc' = "crashed" /\ sweepProc' = sweepProc
    /\ UNCHANGED <<band, stop_requested, now, last_tts_time, wake, rc, raw,
                   freqs, powers, hits, log, speech, late, sigpc, listenVars, ppc>>

\* a scan_band that parses the captured output whatever the exit status
ScanResultAnyStatus(status, out) == ParseOutput(out)

\* what scan_band returns for an exit status and an output
ScanResult(status, out) ==
    IF status = "nonzero" THEN EmptySweep ELSE ParseOutput(out)

\* rtl_power exits: check_output returns or raises CalledProcessError,
\* scan_band returns and detect_peaks runs
SweepExit ==
    /\ pc = "scan"
    /\ sweepProc = "running"
    /\ \E status \in {"zero", "nonzero"}, out \in SweepOutputs :
          LET sw == ScanResult(status, out) IN
          /\ rc' = status
          /\ raw' = out
          /\ freqs' = sw.freqs
          /\ powers' = sw.powers
          /\ hits' = detect_peaks(sw.freqs, sw.powers)
    /\ sweepProc' = "none"
    /\ pc' = "eval"
    /\ UNCHANGED <<band, stop_requested, now, last_tts_time, wake, log, speech, late, sigpc,
                   listenVars, ppc>>

\* the locals of one iteration of the for loop are dead once it ends
DropLocals ==
    /\ rc' = "none"
    /\ raw' = <<>>
    /\ freqs' = <<>>
    /\ powers' = <<>>
    /\ hits' = <<>>

\* `if not hits: continue`
NoActivity ==
    /\ pc = "eval"
    /\ hits = <<>>
    /\ pc' = "for"
    /\ band' = band + 1
    /\ DropLocals
    /\ UNCHANGED <<stop_requested, now, last_tts_time, sweepProc, wake, log, speech, late, sigpc,
                   listenVars, ppc>>

\* the hits are sorted in place and the strongest is spoken
Alert ==
    /\ pc = "eval"
    /\ hits # <<>>
    /\ Len(log) < MaxAttempts
    /\ hits' = SortHits(hits)
    /\ Speak(SortHits(hits)[1][1])
    /\ pc' = "for"
    /\ band' = band + 1
    /\ rc' = "none"
    /\ raw' = <<>>
    /\ freqs' = <<>>
    /\ powers' = <<>>
    /\ UNCHANGED <<stop_requested, now, sweepProc, wake, late, sigpc, listenVars, ppc>>

\* time.sleep(0.5) returns
SleepDone ==
    /\ pc = "sleep"
    /\ now >= wake
    /\ pc' = "while"
    /\ wake' = 0
    /\ UNCHANGED <<band, stop_requested, now, last_tts_time, sweepProc, rc,
                   raw, freqs, powers, hits, log, speech, late, sigpc, listenVars, ppc>>

\* main() is blocked: in check_output, or in time.sleep
Blocked == (pc = "scan" /\ sweepProc = "running") \/ (pc = "sleep" /\ now < wake)

\* half a second goes by while main() is blocked
Tick ==
    /\ Blocked
    /\ now < StartClock + MaxElapsed
    /\ now' = now + 1
    /\ late' = IF stop_requested /\ late <= PollTicks THEN late + 1 ELSE late
    /\ UNCHANGED <<mainVars, stop_requested, last_tts_time, log, speech, sigpc,
                   listenVars, ppc>>

InitCommon ==
    /\ band = 0
    /\ stop_requested = FALSE
    /\ now = StartClock
    /\ last_tts_time = 0
    /\ sweepProc = "none"
    /\ wake = 0
    /\ rc = "none"
    /\ freqs = <<>>
    /\ powers = <<>>
    /\ hits = <<>>
    /\ log = <<>>
    /\ speech = 0
    /\ late = 0
    /\ sigpc = "none"
    /\ lpc = "idle"
    /\ current_audio_proc = 0
    /\ procs = <<>>
    /\ t0 = 0

Init ==
    /\ InitCommon
    /\ pc = "start"
    /\ raw = <<>>
    /\ ppc = "none"

Next ==
    \/ Startup
    \/ WhileCheck
    \/ ForNext
    \/ SpawnSweep
    \/ SweepExit
    \/ NoActivity
    \/ Alert
    \/ SleepDone
    \/ Tick
    \/ HandleSigint

Spec == Init /\ [][Next]_vars

\* ----------------------------------------------- listen_to_frequency ----
\* An audio pipeline: the shell Popen started (bash -c "rtl_fm | aplay"),
\* the two programs it runs, and whether the process group was sent SIGTERM
\* by os.killpg.
NewPipeline == [shell |-> "running", kids |-> "running", termed |-> FALSE]

\* os.killpg(current_audio_proc.pid, signal.SIGTERM), guarded by
\* `current_audio_proc and current_audio_proc.poll() is None`
KillGroupIfAlive ==
    IF AudioAlive
    THEN [procs EXCEPT ![current_audio_proc].termed = TRUE]
    ELSE procs

\* listen_to_frequency is called: the previous pipeline is signalled
ListenCall ==
    /\ pc = "calling"
    /\ lpc = "idle"
    /\ Len(procs) < MaxPipelines
    /\ procs' = KillGroupIfAlive
    /\ lpc' = "popen"
    /\ pc' = "listen"
    /\ UNCHANGED <<band, sweepProc, wake, rc, raw, freqs, powers, hits, stop_requested, now, last_tts_time, log, speech, late, sigpc,
                   current_audio_proc, t0, ppc>>

\* current_audio_proc = subprocess.Popen(..., preexec_fn=os.setsid); t0 = time.time()
ListenPopen ==
    /\ lpc = "popen"
    /\ procs' = Append(procs, NewPipeline)
    /\ current_audio_proc' = Len(procs) + 1
    /\ t0' = now
    /\ lpc' = "loop"
    /\ UNCHANGED <<mainVars, stop_requested, now, last_tts_time, log, speech, late, sigpc, ppc>>

\* one test of the while loop: its condition and its two breaks
ListenPoll ==
    /\ lpc = "loop"
    /\ lpc' = IF ~(now - t0 < LISTEN_TIME_SEC) \/ stop_requested \/ ~AudioAlive
              THEN "finally"
              ELSE "sleep"
    /\ UNCHANGED <<mainVars, stop_requested, now, last_tts_time, log, speech, late, sigpc,
                   current_audio_proc, procs, t0, ppc>>

\* time.sleep(0.2) returns: the clock reads the same half second or the next
ListenSleep ==
    /\ lpc = "sleep"
    /\ \E d \in {0, 1} :
          /\ now + d <= StartClock + MaxElapsed
          /\ now' = now + d
    /\ lpc' = "loop"
    /\ UNCHANGED <<mainVars, stop_requested, last_tts_time, log, speech, late, sigpc,
                   current_audio_proc, procs, t0, ppc>>

\* the finally block, then the return
ListenFinally ==
    /\ lpc = "finally"
    /\ procs' = KillGroupIfAlive
    /\ lpc' = "idle"
    /\ pc' = "check"
    /\ UNCHANGED <<band, sweepProc, wake, rc, raw, freqs, powers, hits, stop_requested, now, last_tts_time, log, speech, late, sigpc,
                   current_audio_proc, t0, ppc>>

\* rtl_fm and aplay end: by themselves, or once the group was signalled
KidsExit ==
    \E i \in DOMAIN procs :
        /\ procs[i].kids = "running"
        /\ procs' = [procs EXCEPT ![i].kids = "exited"]
        /\ UNCHANGED <<mainVars, stop_requested, now, last_tts_time, log, speech, late, sigpc,
                       lpc, current_audio_proc, t0, ppc>>

\* the shell ends: its pipeline is over, or SIGTERM reached it
ShellExit ==
    \E i \in DOMAIN procs :
        /\ procs[i].shell = "running"
        /\ procs[i].kids = "exited" \/ procs[i].termed
        /\ procs' = [procs EXCEPT ![i].shell = "exited"]
        /\ UNCHANGED <<mainVars, stop_requested, now, last_tts_time, log, speech, late, sigpc,
                       lpc, current_audio_proc, t0, ppc>>

\* the caller: main() tests stop_requested before each band and leaves its
\* loops when it is set; otherwise it scans the band and calls the listener
CallerCheck ==
    /\ pc = "check"
    /\ pc' = IF stop_requested THEN "stopped" ELSE "calling"
    /\ UNCHANGED <<band, sweepProc, wake, rc, raw, freqs, powers, hits,
                   stop_requested, now, last_tts_time, log, speech, late, sigpc,
                   listenVars, ppc>>

InitListen ==
    /\ InitCommon
    /\ pc = "check"
    /\ raw = <<>>
    /\ ppc = "none"

NextListen ==
    \/ ListenCall
    \/ ListenPopen
    \/ ListenPoll
    \/ ListenSleep
    \/ ListenFinally
    \/ KidsExit
    \/ ShellExit
    \/ HandleSigint
    \/ CallerCheck

SpecListen == InitListen /\ [][NextListen]_vars

\* a process of pipeline i is still running
Alive(i) == procs[i].shell = "running" \/ procs[i].kids = "running"

\* ------------------------------------- scan_band and detect_peaks alone ----
PowerVals == {-284, -280, -268}       \* -71, -70 and -67 dB
PowerFields == {Num(p) : p \in PowerVals} \cup {Bad, Empty}
PowerSeqs == UNION {[1..n -> PowerFields] : n \in 0..MaxBins}

\* the start and bin width fields of the lines tried
Headers ==
    {<<Num(StartHz), Num(BIN_WIDTH_HZ)>>, <<Num(StartHz), Num(0)>>,
     <<Num(StartHz), Num(0 - BIN_WIDTH_HZ)>>, <<Bad, Num(BIN_WIDTH_HZ)>>,
     <<Num(StartHz), Bad>>}

TrialLines == {DataLine(h[1], h[2], pw) : h \in Headers, pw \in PowerSeqs}

\* the outputs tried: a line alone, after an earlier data line, and among
\* lines of the kinds the parser skips
TrialOutputs ==
    {<<>>}
    \cup {<<l>> : l \in TrialLines}
    \cup {PeakOut \o <<l>> : l \in TrialLines}
    \cup {<<CommentLine, l, StatusLine>> : l \in TrialLines}
    \cup {<<l, ShortLine, BlankLine>> : l \in TrialLines}
    \cup {NoCsvOut, <<CommentLine>>, <<BlankLine, CommentLine, StatusLine>>}

\* freqs, powers = scan_band(...) on the output drawn
ParseStep ==
    /\ ppc = "in"
    /\ freqs' = ParseOutput(raw).freqs
    /\ powers' = ParseOutput(raw).powers
    /\ ppc' = "parsed"
    /\ UNCHANGED <<pc, band, stop_requested, now, last_tts_time, sweepProc, wake,
                   rc, raw, hits, log, speech, late, sigpc, listenVars>>

\* hits = detect_peaks(freqs, powers)
DetectStep ==
    /\ ppc = "parsed"
    /\ hits' = detect_peaks(freqs, powers)
    /\ ppc' = "detected"
    /\ UNCHANGED <<pc, band, stop_requested, now, last_tts_time, sweepProc, wake,
                   rc, raw, freqs, powers, log, speech, late, sigpc, listenVars>>

\* `if not hits`: the band is reported quiet, or its activity is reported
ReportStep ==
    /\ ppc = "detected"
    /\ ppc' = IF hits = <<>> THEN "quiet" ELSE "active"
    /\ UNCHANGED <<pc, band, stop_requested, now, last_tts_time, sweepProc, wake,
                   rc, raw, freqs, powers, hits, log, speech, late, sigpc,
                   listenVars>>

InitParse ==
    /\ InitCommon
    /\ pc = "parse"
    /\ raw \in TrialOutputs
    /\ ppc = "in"

NextParse == ParseStep \/ DetectStep \/ ReportStep

SpecParse == InitParse /\ [][NextParse]_vars

\* ------------------------------------------------------------ claims ----
Range(q) == {q[i] : i \in DOMAIN q}

\* the samples of the sweep held in freqs and powers, in order
Samples == [i \in DOMAIN powers |-> <<freqs[i], powers[i]>>]

\* the k-th smallest of the values of ps, by counting
CountBelow(ps, v) == Cardinality({i \in DOMAIN ps : ps[i] < v})
CountUpTo(ps, v) == Cardinality({i \in DOMAIN ps : ps[i] <= v})
OrderStat(ps, k) ==
    CHOOSE v \in Range(ps) : CountBelow(ps, v) < k /\ k <= CountUpTo(ps, v)

\* the statistical median: the middle value, or the mean of the two middle ones
StatMedian(ps) ==
    LET n == Len(ps) IN
    IF n % 2 = 1 THEN OrderStat(ps, (n + 1) \div 2)
    ELSE (OrderStat(ps, n \div 2) + OrderStat(ps, (n \div 2) + 1)) \div 2

AtCutoff(sample) == sample[2] >= StatMedian(powers) + THRESHOLD_ABOVE_MEDIAN_DB

\* C9: for a non-empty sweep the detections are exactly the samples whose
\* power is at least the statistical median of the powers plus the margin,
\* in sweep order; a sample equal to the cutoff is one of them.
C9_DetectIffAtCutoff ==
    (ppc = "detected" /\ powers # <<>>) => hits = SelectSeq(Samples, AtCutoff)

\* an even-length sweep, detected, with a sample exactly at the cutoff, one
\* below it, and two middle values that differ
C9_Witness ==
    /\ ppc = "detected"
    /\ Len(powers) = 4
    /\ \E i \in DOMAIN powers :
          powers[i] = StatMedian(powers) + THRESHOLD_ABOVE_MEDIAN_DB
    /\ \E i \in DOMAIN powers :
          powers[i] < StatMedian(powers) + THRESHOLD_ABOVE_MEDIAN_DB
    /\ OrderStat(powers, 2) # OrderStat(powers, 3)
    /\ hits # <<>>

\* the fields of the line scan_band builds the sweep from, when it has one
\* whose start and bin width parse
HasSweepLine ==
    /\ DataParts(raw) # <<>>
    /\ IsFloat(DataParts(raw)[Len(DataParts(raw))].fields[3])
    /\ IsFloat(DataParts(raw)[Len(DataParts(raw))].fields[5])
SweepLine == DataParts(raw)[Len(DataParts(raw))].fields
SweepStart == SweepLine[3].v
SweepBin == SweepLine[5].v
PowerStrs == SubSeq(SweepLine, 7, Len(SweepLine))

\* 0-based position, among all power fields, of the k-th field that parses
RawPos(pvs, k) ==
    CHOOSE j \in 0..(Len(pvs) - 1) :
        /\ IsFloat(pvs[j + 1])
        /\ Cardinality({i \in 0..j : IsFloat(pvs[i + 1])}) = k

Retained(pvs) == {i \in DOMAIN pvs : IsFloat(pvs[i])}

\* C10 (amended): each retained power value's frequency is start + index x
\* bin_width where index is the value's position among ALL power fields of
\* the line, dropped ones counted, so a dropped field leaves the frequencies
\* of the later samples where they were; on a line without malformed fields,
\* sample index 3 with start 144,000,000 and bin width 25,000 is at
\* 144,075,000.
C10_FreqByRawPosition ==
    (ppc = "parsed" /\ HasSweepLine) =>
        /\ Len(freqs) = Cardinality(Retained(PowerStrs))
        /\ Len(powers) = Len(freqs)
        /\ \A k \in DOMAIN freqs :
              /\ freqs[k] = SweepStart + RawPos(PowerStrs, k) * SweepBin
              /\ powers[k] = PowerStrs[RawPos(PowerStrs, k) + 1].v
        /\ (/\ Retained(PowerStrs) = DOMAIN PowerStrs
            /\ Len(PowerStrs) >= 4
            /\ SweepStart = 144000000
            /\ SweepBin = 25000) => freqs[4] = 144075000

\* a parsed line where a malformed field comes before a retained one, with
\* the bin width of the program
C10_Witness ==
    /\ ppc = "parsed"
    /\ HasSweepLine
    /\ SweepBin = BIN_WIDTH_HZ
    /\ Len(PowerStrs) = 4
    /\ PowerStrs[2] = Bad
    /\ IsFloat(PowerStrs[1]) /\ IsFloat(PowerStrs[3]) /\ IsFloat(PowerStrs[4])
    /\ freqs = <<StartHz, StartHz + 2 * BIN_WIDTH_HZ, StartHz + 3 * BIN_WIDTH_HZ>>

\* C10 as claimed: the index is the position among the retained fields, so
\* the k-th sample kept is at start + (k - 1) x bin_width.
C10_FreqByRetainedPosition ==
    (ppc = "parsed" /\ HasSweepLine) =>
        \A k \in DOMAIN freqs : freqs[k] = SweepStart + (k - 1) * SweepBin

\* ------------------------------------------------- claims about speak ----
\* the call passed the cooldown test and went on to start espeak
Passed(e) == e.out \in {"spoken", "nospeech"}

\* C1: any two alerts dispatched to the speech tool are at least
\* TTS_COOLDOWN_SEC apart, the startup announcement included.
C1_SpokenApart ==
    \A i, j \in DOMAIN log :
        (i < j /\ log[i].out = "spoken" /\ log[j].out = "spoken")
            => log[j].t - log[i].t >= TTS_COOLDOWN_SEC

\* two alerts were spoken, with a suppressed detection in between
C1_Witness ==
    \E i, j, k \in DOMAIN log :
        /\ i < j /\ j < k
        /\ log[i].out = "spoken" /\ log[j].out = "suppressed" /\ log[k].out = "spoken"

\* a step in which speak() is called
SpeakStep == Len(log') = Len(log) + 1

\* C2: a call of speak() made less than the cooldown after last_tts_time
\* leaves last_tts_time unchanged and starts no speech process; no later
\* step speaks it: the entry of a suppressed call never changes, and every
\* speech process belongs to a call that passed the cooldown test.
C2_SuppressedNoEffect ==
    /\ [][(SpeakStep /\ now - last_tts_time < TTS_COOLDOWN_SEC)
            => /\ last_tts_time' = last_tts_time
               /\ speech' = speech
               /\ log'[Len(log')].out = "suppressed"]_vars
    /\ [][\A i \in DOMAIN log : i \in DOMAIN log' /\ log'[i] = log[i]]_vars
    /\ [](speech = Cardinality({i \in DOMAIN log : log[i].out = "spoken"}))

\* a detection was suppressed and the stamp still is the earlier one
C2_Witness ==
    \E i \in DOMAIN log :
        /\ log[i].out = "suppressed"
        /\ i = Len(log)
        /\ last_tts_time < log[i].t
        /\ log[i].t - last_tts_time < TTS_COOLDOWN_SEC

\* C3 (amended): a call of speak() made at least the cooldown after every
\* earlier call that passed the cooldown test (exactly the cooldown counts)
\* passes it and is handed to the speech tool; so does the later of two
\* consecutive calls spaced at least the cooldown apart, whatever became of
\* the earlier one.
C3_SpacedFromLastPassed ==
    \A j \in DOMAIN log :
        /\ (\A i \in 1..(j - 1) :
               Passed(log[i]) => log[j].t - log[i].t >= TTS_COOLDOWN_SEC)
              => Passed(log[j])
        /\ (j > 1 /\ log[j].t - log[j - 1].t >= TTS_COOLDOWN_SEC) => Passed(log[j])

\* a call exactly the cooldown after a suppressed one was spoken
C3_Witness ==
    \E i, j \in DOMAIN log :
        /\ j = i + 1
        /\ log[j].t - log[i].t = TTS_COOLDOWN_SEC
        /\ log[i].out = "suppressed"
        /\ log[j].out = "spoken"

\* C3 as claimed: any two calls spaced at least the cooldown apart are both
\* dispatched.
C3_BothDispatched ==
    \A i, j \in DOMAIN log :
        (i < j /\ log[j].t - log[i].t >= TTS_COOLDOWN_SEC)
            => Passed(log[i]) /\ Passed(log[j])

\* ------------------------------------------ claims about the listener ----
\* C4: at most one audio pipeline has a process alive at any instant.
C4_AtMostOnePipelineAlive ==
    Cardinality({i \in DOMAIN procs : Alive(i)}) <= 1

\* C5: when listen_to_frequency has returned, and when the watch loop has
\* stopped, every pipeline's process group was sent a termination signal or
\* has no process left.
C5_GroupSignalledOnReturn ==
    (pc = "check" \/ pc = "stopped")
        => \A i \in DOMAIN procs : procs[i].termed \/ ~Alive(i)

\* ---------------------------------------- claims about the watch loop ----
\* C6: when SIGINT was handled while a sweep was in progress, main() is still
\* running for at most one polling interval after it.
C6_StoppedWithinPoll == sigpc = "scan" => late <= PollTicks

\* C7: the watch loop ends only after a shutdown signal; no failure to run a
\* tool ends it.
C7_OnlyShutdownEndsLoop ==
    /\ pc # "crashed"
    /\ pc = "stopped" => stop_requested

\* the line scan_band would use has a start or bin width that does not parse
BadHeader(out) ==
    /\ DataParts(out) # <<>>
    /\ \E k \in {3, 5} : ~IsFloat(DataParts(out)[Len(DataParts(out))].fields[k])

\* the output has no line scan_band can use
NoUsableLine(out) == DataParts(out) = <<>> \/ BadHeader(out)

\* the output has no usable line, or a power field of that line does not parse
Malformed(out) ==
    \/ NoUsableLine(out)
    \/ \E k \in 7..Len(DataParts(out)[Len(DataParts(out))].fields) :
          ~IsFloat(DataParts(out)[Len(DataParts(out))].fields[k])

\* the preconditions of the two readings of C8
FailedSweep == rc = "nonzero" \/ NoUsableLine(raw)
FailedOrMalformedSweep == rc = "nonzero" \/ Malformed(raw)

\* C8 (amended): when the sweep tool exits non-zero, or its output has no
\* candidate line, or the header fields of the last candidate line fail to
\* parse, scan_band yields an empty sweep: no crash, no detection, no alert
\* attempt, and the loop proceeds to the next band.  (Power fields that fail
\* to parse are dropped one by one; the rest of the line is a sweep like any
\* other.)
C8_NoDataOnFailure ==
    /\ []((pc = "eval" /\ FailedSweep)
            => freqs = <<>> /\ powers = <<>> /\ hits = <<>>)
    /\ [][(pc = "eval" /\ FailedSweep /\ pc' # pc)
            => pc' = "for" /\ band' = band + 1 /\ log' = log /\ speech' = speech]_vars

\* a sweep that printed a peak but exited non-zero was evaluated
C8_Witness ==
    /\ pc = "eval"
    /\ rc = "nonzero"
    /\ raw = PeakOut
    /\ hits = <<>>

\* C8 as claimed: a non-zero exit or any malformed output gives an empty
\* sweep, no detection and no alert attempt.
C8_NoDataOnMalformed ==
    (pc = "eval" /\ FailedOrMalformedSweep)
        => freqs = <<>> /\ powers = <<>> /\ hits = <<>>

\* ------------------------------------------- claims about the parser ----
\* C11: the frequencies of a sweep the parser returned are strictly
\* increasing.
C11_FreqsStrictlyIncreasing ==
    ppc = "parsed" => \A k \in 1..(Len(freqs) - 1) : freqs[k] < freqs[k + 1]

\* no line of the output is a line with a comma: each is blank, a comment or
\* a status text
NoCsvLine(out) ==
    \A i \in DOMAIN out : IsBlank(out[i]) \/ out[i].comment \/ ~HasComma(out[i])

\* C12: an output without a comma-bearing line (empty, or only blank,
\* comment and status lines) gives an empty sweep, the empty sweep gives no
\* detection, and the band is reported as having no activity.
C12_NoCsvNoActivity ==
    (NoCsvLine(raw) /\ ppc # "in") =>
        /\ freqs = <<>> /\ powers = <<>>
        /\ hits = <<>>
        /\ ppc # "active"

\* an output of a blank, a comment and a status line was reported quiet
C12_Witness ==
    /\ raw = <<BlankLine, CommentLine, StatusLine>>
    /\ ppc = "quiet"
    /\ freqs = <<>>

\* some line of the output is a candidate line
HasCandidate(out) == \E i \in DOMAIN out : IsCandidate(out[i])

\* the position of the last candidate line of the output
LastCandidate(out) ==
    CHOOSE i \in DOMAIN out :
        /\ IsCandidate(out[i])
        /\ \A j \in DOMAIN out : j > i => ~IsCandidate(out[j])

\* C15: the sweep returned is the one its last candidate line gives alone,
\* whatever the earlier lines are, and it is empty when a header field of
\* the last candidate does not parse, also after a well-formed candidate.
C15_LastCandidateAuthoritative ==
    (ppc = "parsed" /\ HasCandidate(raw)) =>
        LET l == raw[LastCandidate(raw)] IN
        /\ freqs = ParseOutput(<<l>>).freqs
        /\ powers = ParseOutput(<<l>>).powers
        /\ (~IsFloat(l.fields[3]) \/ ~IsFloat(l.fields[5]))
              => freqs = <<>> /\ powers = <<>>

\* a well-formed candidate with a peak was followed by a candidate whose
\* start frequency does not parse, and the sweep returned is empty
C15_Witness ==
    /\ ppc = "parsed"
    /\ Len(raw) = 3
    /\ raw[2] = PeakOut[2]
    /\ IsCandidate(raw[2]) /\ IsCandidate(raw[3])
    /\ ~IsFloat(raw[3].fields[3])
    /\ freqs = <<>>

\* ------------------------------------------ claims about the alerts ----
\* C13: last_tts_time changes only in a call of speak() whose speech
\* process was started, so every suppressed call lies within the cooldown
\* of an earlier call that was spoken.
C13_StampOnlyWhenSpoken ==
    /\ [][last_tts_time' # last_tts_time
            => (SpeakStep /\ log'[Len(log')].out = "spoken")]_vars
    /\ [](\A j \in DOMAIN log :
            log[j].out = "suppressed"
                => \E i \in 1..(j - 1) :
                       /\ log[i].out = "spoken"
                       /\ log[j].t - log[i].t < TTS_COOLDOWN_SEC)

\* C14: every call of speak() the watch loop makes for a detection prints a
\* line, whether the alert was spoken or suppressed.
C14_EveryAttemptLogged ==
    \A i \in DOMAIN log : log[i].msg # 0 => log[i].line

\* ------------------------------------- claims about the watch loop ----
\* C16: once the handler has set the flag while a sweep was running, the
\* watch loop calls speak() no more, so it dispatches no alert for the band
\* whose sweep was in progress when the shutdown was requested.
C16_NoAlertAfterShutdown ==
    [][sigpc = "scan" => log' = log]_vars

BandsInOrder ==
    /\ [][(pc' = "scan" /\ pc # "scan") =>
            /\ pc = "spawn" /\ band \in 1..NumBands
            /\ sweepProc = "none" /\ sweepProc' = "running"]_vars
    /\ [][band' # band =>
            \/ pc = "while" /\ band' = 1
            \/ pc = "eval" /\ band' = band + 1 /\ sweepProc = "none"]_vars
    /\ [][(pc = "eval" /\ pc' # "eval") => (pc' = "for" /\ band' = band + 1)]_vars
    /\ [][(pc' = "eval" /\ pc # "eval") => pc = "scan"]_vars
    /\ [][(pc' = "spawn" /\ pc # "spawn") => (pc = "for" /\ band' = band)]_vars

\* a pass ends short of the last band only when the flag is set, and the
\* pause after a pass leads to the test that begins the next one
PassesRepeat ==
    /\ [][(pc = "for" /\ pc' = "sleep" /\ ~stop_requested) => band = NumBands + 1]_vars
    /\ [][(pc = "sleep" /\ pc' # "sleep") => pc' = "while"]_vars
    /\ [][(pc = "while" /\ pc' # "while" /\ ~stop_requested)
            => (pc' = "for" /\ band' = 1)]_vars

\* a band the loop reached while the flag was not set gets its sweep
EveryBandScanned ==
    [][(pc \in {"for", "spawn"} /\ pc' # pc /\ ~stop_requested /\ band <= NumBands)
            => pc' \in {"spawn", "scan"}]_vars

\* C18: within a pass the bands are swept in their order, one sweep at a
\* time and each band once; a pass that no shutdown interrupts sweeps every
\* band, and without a shutdown the passes repeat.
C18_EveryPassScansEveryBand ==
    BandsInOrder /\ PassesRepeat /\ EveryBandScanned

\* C19: once the handler has set stop_requested no sweep is started,
\* wherever main() was when the signal came, and the flag stays set.
C19_NoSweepAfterStop ==
    /\ [][stop_requested => ~(pc = "spawn" /\ pc' = "scan")]_vars
    /\ [][stop_requested => stop_requested']_vars

====
